---- MODULE Spec2Model ----
(***************************************************************************)
(* Model of the pointer-pair slice iterators of odds (src/slice/iter.rs):  *)
(* SliceCopyIter (yields T by value) and SliceIter (yields &T), their      *)
(* constructors, single steps from both ends, exact length, and the        *)
(* 4-way unrolled find / position of SliceIter.                            *)
(*                                                                         *)
(* Addresses are integers modulo AddrSpace (a usize of AddrBits bits).     *)
(* A reference &T is modelled by the address it points to; the value       *)
(* behind it is read from the borrowed memory (slice laid out at base).    *)
(* None is the empty sequence and Some(x) is <<x>>.                        *)
(***************************************************************************)
EXTENDS Integers, Sequences, FiniteSets, TLC

\* Longest slice handed to a constructor.
MaxLen == 9
\* Longest slice of the runs that clone the iterator.
CloneMaxLen == 4
\* Width of a pointer / usize in bits.
AddrBits == 6

AddrSpace == 2 ^ AddrBits

\* size_of::<T>() of the element types tried (0: a zero-sized type).
SizesOfT == {0, 1, 2, 4}

\* Addresses slice.as_ptr() may return (aligned for every size tried).
BaseAddrs == {8, 12}

\* Contents of the borrowed memory: element i (0-based) of every slice.
\* 10, 20, 30, 40, 50, then 20 at the odd indices (a repeated value) and a
\* fresh value at the even ones: 10 20 30 40 50 20 60 20 70 ...
Elem(i) ==
    IF i < 5 THEN 10 * (i + 1)
    ELSE IF i % 2 = 1 THEN 20
    ELSE 10 * ((i \div 2) + 3)
MkSlice(n) == [i \in 1..n |-> Elem(i - 1)]
Slices == {MkSlice(n) : n \in 0..MaxLen}
Values == {Elem(i) : i \in 0..MaxLen}

\* Predicates handed to find / position: p(x) holds iff x is in the set.
Preds == {{}, Values, {20, 40}} \cup {{v} : v \in Values}

None == <<>>
Some(x) == <<x>>

VARIABLES
    variant,    \* "SliceIter" or "SliceCopyIter"
    ctor,       \* constructor used: "from", "default" or "new"
    sizeT,      \* size_of::<T>()
    slice,      \* the borrowed memory's elements
    base,       \* address of slice[1]
    status,     \* "ok", or "panicked" when an assertion failed
    ptr,        \* field ptr (start of the range)
    end,        \* field end
    pc,         \* position inside a running find / position, else "idle"
    op,         \* the operation running or last completed
    ret,        \* value returned by the last completed operation
    pred,       \* predicate of the running / last search
    start,      \* local `start` of position (front address at the call)
    idx,        \* enumerate counter of the provided Iterator::position
    calls,      \* items the predicate was called on in this search, in order
    fwd,        \* items fetched from the front so far, in order
    bwd,        \* items fetched from the back so far, in order
    ub,         \* TRUE once memory outside the slice was dereferenced
    arg,        \* argument i of the running / last index call
    derefs,     \* addresses dereferenced by the running / last operation
    other       \* <<c>> once the iterator was cloned: the copy not in use

vars == <<variant, ctor, sizeT, slice, base, status, ptr, end, pc, op, ret,
          pred, start, idx, calls, fwd, bwd, ub, arg, derefs,
          other>>

memvars == <<variant, ctor, sizeT, slice, base, status>>
searchvars == <<pred, start, idx, calls>>

----------------------------------------------------------------------------
\* Raw pointers and the borrowed memory

\* usize subtraction a - b (wrapping on underflow, as in a release build).
USub(a, b) == (a - b) % AddrSpace

\* <*const T>::offset: i elements away.
offset(p, i) == (p + i * sizeT) % AddrSpace

\* Faulty variant of post_increment: advances first and returns the new
\* value (a pre-increment).
post_increment_pre(p) == [current |-> offset(p, 1), self |-> offset(p, 1)]

\* PointerExt::post_increment: the old value, and the pointer advanced by 1.
post_increment(p) == [current |-> p, self |-> offset(p, 1)]

\* ptrdistance(a, b) = (b as usize - a as usize) / size_of::<T>()
ptrdistance(a, b) == USub(b, a) \div sizeT

\* p is the address of an element of the borrowed slice.
Valid(p) ==
    /\ sizeT > 0
    /\ base <= p
    /\ p < base + Len(slice) * sizeT
    /\ (p - base) % sizeT = 0

\* *p: the element stored at p; reading outside the slice is undefined
\* behaviour and may produce any value.
Deref(p) ==
    IF Valid(p) THEN {slice[((p - base) \div sizeT) + 1]} ELSE Values

----------------------------------------------------------------------------
\* Construction

\* align_of::<T>() of the element types tried: the unit type and the
\* integers of 1, 2 and 4 bytes.
align_of == IF sizeT = 0 THEN 1 ELSE sizeT

\* Faulty variant of new: the assertion is missing.
new_unasserted(p, e, sz) == [status |-> "ok", ptr |-> p, end |-> e]

\* SliceCopyIter::new / SliceIter::new: assert size_of::<T>() != 0, then
\* store the pair verbatim.
new(p, e, sz) ==
    IF sz # 0 THEN [status |-> "ok", ptr |-> p, end |-> e]
    ELSE [status |-> "panicked", ptr |-> 0, end |-> 0]

\* Faulty variant of from: end computed in bytes, len not scaled by
\* size_of::<T>().
from_unscaled(s, b, sz) ==
    IF sz # 0 THEN new(b, (b + Len(s)) % AddrSpace, sz)
    ELSE [status |-> "panicked", ptr |-> 0, end |-> 0]

\* From<&[T]>: ptr = slice.as_ptr(), end = ptr.offset(slice.len()).
from(s, b, sz) ==
    IF sz # 0 THEN new(b, (b + Len(s) * sz) % AddrSpace, sz)
    ELSE [status |-> "panicked", ptr |-> 0, end |-> 0]

\* Faulty variant of default: end one element past the sentinel.
default_nonempty(sz) == new(1, 1 + sz, sz)

\* Default: new(0x1, 0x1).
default(sz) == new(1, 1, sz)

Init ==
    /\ variant \in {"SliceIter", "SliceCopyIter"}
    /\ sizeT \in SizesOfT
    /\ ctor \in {"from", "default", "new"}
    /\ slice \in Slices
    /\ base \in BaseAddrs
    /\ ctor = "default" => slice = <<>>
    /\ LET it == CASE ctor = "from" -> from(slice, base, sizeT)
                   [] ctor = "default" -> default(sizeT)
                   \* new, handed the two ends of the memory it may read
                   [] ctor = "new" ->
                        new(base, (base + Len(slice) * sizeT) % AddrSpace,
                            sizeT)
       IN /\ status = it.status
          /\ ptr = it.ptr
          /\ end = it.end
    /\ pc = "idle"
    /\ op = "new"
    /\ ret = None
    /\ pred = {}
    /\ start = 0
    /\ idx = 0
    /\ calls = <<>>
    /\ fwd = <<>>
    /\ bwd = <<>>
    /\ ub = FALSE
    /\ arg = 0
    /\ derefs = <<>>
    /\ other = <<>>

Callable(v) == status = "ok" /\ pc = "idle" /\ variant = v

----------------------------------------------------------------------------
\* Single steps

\* Faulty variant of SliceCopyIter::next: advances, then reads.
SliceCopyIter_next_fn_preinc(p, e) ==
    IF p # e
    THEN LET p1 == offset(p, 1)
         IN {[elt |-> Some(x), ptr |-> p1, ub |-> ~Valid(p1), derefs |-> <<p1>>] :
                x \in Deref(p1)}
    ELSE {[elt |-> None, ptr |-> p, ub |-> FALSE, derefs |-> <<>>]}

\* SliceCopyIter::next: the possible (result, new ptr) pairs.
SliceCopyIter_next_fn(p, e) ==
    IF p # e
    THEN {[elt |-> Some(x), ptr |-> offset(p, 1), ub |-> ~Valid(p), derefs |-> <<p>>] :
             x \in Deref(p)}
    ELSE {[elt |-> None, ptr |-> p, ub |-> FALSE, derefs |-> <<>>]}

\* Faulty variant of SliceCopyIter::next_back: reads *end, then moves back.
SliceCopyIter_next_back_fn_readfirst(p, e) ==
    IF p # e
    THEN {[elt |-> Some(x), end |-> offset(e, -1), ub |-> ~Valid(e), derefs |-> <<e>>] :
             x \in Deref(e)}
    ELSE {[elt |-> None, end |-> e, ub |-> FALSE, derefs |-> <<>>]}

\* Faulty variant of SliceCopyIter::next_back: end moved by +1 element.
SliceCopyIter_next_back_fn_forward(p, e) ==
    IF p # e
    THEN LET e1 == offset(e, 1)
         IN {[elt |-> Some(x), end |-> e1, ub |-> ~Valid(e1),
              derefs |-> <<e1>>] : x \in Deref(e1)}
    ELSE {[elt |-> None, end |-> e, ub |-> FALSE, derefs |-> <<>>]}

\* SliceCopyIter::next_back: the possible (result, new end) pairs.
SliceCopyIter_next_back_fn(p, e) ==
    IF p # e
    THEN LET e1 == offset(e, -1)
         IN {[elt |-> Some(x), end |-> e1, ub |-> ~Valid(e1), derefs |-> <<e1>>] :
                x \in Deref(e1)}
    ELSE {[elt |-> None, end |-> e, ub |-> FALSE, derefs |-> <<>>]}

\* Faulty variant of SliceIter::next: no emptiness test.
SliceIter_next_fn_unchecked(p, e) ==
    [elt |-> Some(p), ptr |-> offset(p, 1), ub |-> ~Valid(p), derefs |-> <<p>>]

\* SliceIter::next: Some(&*ptr), ptr advanced by one element.
SliceIter_next_fn(p, e) ==
    IF p # e
    THEN [elt |-> Some(p), ptr |-> offset(p, 1), ub |-> ~Valid(p), derefs |-> <<p>>]
    ELSE [elt |-> None, ptr |-> p, ub |-> FALSE, derefs |-> <<>>]

\* Faulty variant of SliceIter::next_back: returns the reference to the old
\* end.
SliceIter_next_back_fn_stale(p, e) ==
    IF p # e
    THEN [elt |-> Some(e), end |-> offset(e, -1), ub |-> ~Valid(e), derefs |-> <<e>>]
    ELSE [elt |-> None, end |-> e, ub |-> FALSE, derefs |-> <<>>]

\* SliceIter::next_back: end moved back by one element, Some(&*end).
SliceIter_next_back_fn(p, e) ==
    IF p # e
    THEN LET e1 == offset(e, -1)
         IN [elt |-> Some(e1), end |-> e1, ub |-> ~Valid(e1), derefs |-> <<e1>>]
    ELSE [elt |-> None, end |-> e, ub |-> FALSE, derefs |-> <<>>]

SliceCopyIter_next ==
    /\ Callable("SliceCopyIter")
    /\ \E o \in SliceCopyIter_next_fn(ptr, end) :
        /\ ptr' = o.ptr
        /\ ret' = o.elt
        /\ fwd' = fwd \o o.elt
        /\ ub' = (ub \/ o.ub)
        /\ derefs' = o.derefs
    /\ op' = "next"
    /\ pred' = {} /\ start' = 0 /\ idx' = 0 /\ calls' = <<>> /\ arg' = 0
    /\ UNCHANGED <<memvars, other, end, pc, bwd>>

SliceCopyIter_next_back ==
    /\ Callable("SliceCopyIter")
    /\ \E o \in SliceCopyIter_next_back_fn(ptr, end) :
        /\ end' = o.end
        /\ ret' = o.elt
        /\ bwd' = bwd \o o.elt
        /\ ub' = (ub \/ o.ub)
        /\ derefs' = o.derefs
    /\ op' = "next_back"
    /\ pred' = {} /\ start' = 0 /\ idx' = 0 /\ calls' = <<>> /\ arg' = 0
    /\ UNCHANGED <<memvars, other, ptr, pc, fwd>>

SliceIter_next ==
    /\ Callable("SliceIter")
    /\ LET o == SliceIter_next_fn(ptr, end)
       IN /\ ptr' = o.ptr
          /\ ret' = o.elt
          /\ fwd' = fwd \o o.elt
          /\ ub' = (ub \/ o.ub)
        /\ derefs' = o.derefs
    /\ op' = "next"
    /\ pred' = {} /\ start' = 0 /\ idx' = 0 /\ calls' = <<>> /\ arg' = 0
    /\ UNCHANGED <<memvars, other, end, pc, bwd>>

SliceIter_next_back ==
    /\ Callable("SliceIter")
    /\ LET o == SliceIter_next_back_fn(ptr, end)
       IN /\ end' = o.end
          /\ ret' = o.elt
          /\ bwd' = bwd \o o.elt
          /\ ub' = (ub \/ o.ub)
        /\ derefs' = o.derefs
    /\ op' = "next_back"
    /\ pred' = {} /\ start' = 0 /\ idx' = 0 /\ calls' = <<>> /\ arg' = 0
    /\ UNCHANGED <<memvars, other, ptr, pc, fwd>>

----------------------------------------------------------------------------
\* Exact length

\* size_hint: len = (end as usize - ptr as usize) / size_of::<T>();
\* (len, Some(len)).  The same body in both variants.
SliceCopyIter_size_hint(p, e) ==
    LET len == USub(e, p) \div sizeT IN <<len, Some(len)>>

\* Faulty variant of size_hint: the byte distance, not divided by
\* size_of::<T>().
SliceIter_size_hint_bytes(p, e) ==
    LET len == USub(e, p) IN <<len, Some(len)>>

SliceIter_size_hint(p, e) ==
    LET len == USub(e, p) \div sizeT IN <<len, Some(len)>>

size_hint ==
    IF variant = "SliceIter" THEN SliceIter_size_hint(ptr, end)
    ELSE SliceCopyIter_size_hint(ptr, end)

\* ExactSizeIterator::len: the lower bound of size_hint.
len == size_hint[1]

----------------------------------------------------------------------------
\* SliceIter::find (4-way unrolled)

\* The call: the closure p is bound, control reaches the first while.
SliceIter_find_call ==
    /\ Callable("SliceIter")
    /\ \E p \in Preds : pred' = p
    /\ op' = "find"
    /\ pc' = "while4"
    /\ start' = ptr
    /\ idx' = 0
    /\ calls' = <<>>
    /\ ret' = None
    /\ derefs' = <<>>
    /\ arg' = 0
    /\ UNCHANGED <<memvars, other, ptr, end, fwd, bwd, ub>>

\* find_step!() of find: elt = &*self.ptr.post_increment();
\* if p(&elt) { return Some(elt) }; otherwise control goes on to cont.
find_find_step(cont) ==
    LET pi == post_increment(ptr)
        elt == pi.current
    IN /\ ptr' = pi.self
       /\ fwd' = Append(fwd, elt)
       /\ calls' = Append(calls, elt)
       /\ ub' = (ub \/ ~Valid(elt))
       /\ derefs' = Append(derefs, elt)
       /\ \E x \in Deref(elt) :
            IF x \in pred
            THEN pc' = "idle" /\ ret' = Some(elt)
            ELSE pc' = cont /\ ret' = ret
       /\ UNCHANGED <<memvars, other, arg, end, op, pred, start, idx, bwd>>

\* Faulty variant of the unrolled loop of find: entered with 3 elements left.
SliceIter_find_unrolled_ge3 ==
    /\ status = "ok" /\ op = "find"
    /\ \/ /\ pc = "while4"
          /\ ptrdistance(ptr, end) >= 3
          /\ find_find_step("step2")
       \/ /\ pc = "step2"
          /\ find_find_step("step3")
       \/ /\ pc = "step3"
          /\ find_find_step("step4")
       \/ /\ pc = "step4"
          /\ find_find_step("while4")
       \/ /\ pc = "while4"
          /\ ~(ptrdistance(ptr, end) >= 3)
          /\ pc' = "while1"
          /\ UNCHANGED <<memvars, other, arg, ptr, end, op, ret, searchvars, fwd, bwd, ub, derefs>>

\* while ptrdistance(self.ptr, self.end) >= 4 { four find_step!() }
SliceIter_find_unrolled ==
    /\ status = "ok" /\ op = "find"
    /\ \/ /\ pc = "while4"
          /\ ptrdistance(ptr, end) >= 4
          /\ find_find_step("step2")
       \/ /\ pc = "step2"
          /\ find_find_step("step3")
       \/ /\ pc = "step3"
          /\ find_find_step("step4")
       \/ /\ pc = "step4"
          /\ find_find_step("while4")
       \/ /\ pc = "while4"
          /\ ~(ptrdistance(ptr, end) >= 4)
          /\ pc' = "while1"
          /\ UNCHANGED <<memvars, other, arg, ptr, end, op, ret, searchvars, fwd, bwd, ub, derefs>>

\* Faulty variant of the tail of find: the single-step loop is missing.
SliceIter_find_tail_missing ==
    /\ status = "ok" /\ op = "find"
    /\ pc = "while1"
    /\ pc' = "idle"
    /\ ret' = None
    /\ UNCHANGED <<memvars, other, arg, ptr, end, op, searchvars, fwd, bwd, ub, derefs>>

\* while self.ptr != self.end { find_step!() }  and the final None.
SliceIter_find_tail ==
    /\ status = "ok" /\ op = "find"
    /\ pc = "while1"
    /\ \/ /\ ptr # end
          /\ find_find_step("while1")
       \/ /\ ptr = end
          /\ pc' = "idle"
          /\ ret' = None
          /\ UNCHANGED <<memvars, other, arg, ptr, end, op, searchvars, fwd, bwd, ub, derefs>>

----------------------------------------------------------------------------
\* SliceIter::position (4-way unrolled)

\* The call: let start = self.ptr.
SliceIter_position_call ==
    /\ Callable("SliceIter")
    /\ \E p \in Preds : pred' = p
    /\ op' = "position"
    /\ pc' = "while4"
    /\ start' = ptr
    /\ idx' = 0
    /\ calls' = <<>>
    /\ ret' = None
    /\ derefs' = <<>>
    /\ arg' = 0
    /\ UNCHANGED <<memvars, other, ptr, end, fwd, bwd, ub>>

\* Faulty variant of position's find_step: the distance is taken to the
\* advanced pointer, not to elt.
position_find_step_advanced(cont) ==
    LET pi == post_increment(ptr)
        elt == pi.current
    IN /\ ptr' = pi.self
       /\ fwd' = Append(fwd, elt)
       /\ calls' = Append(calls, elt)
       /\ ub' = (ub \/ ~Valid(elt))
       /\ derefs' = Append(derefs, elt)
       /\ \E x \in Deref(elt) :
            IF x \in pred
            THEN pc' = "idle" /\ ret' = Some(ptrdistance(start, pi.self))
            ELSE pc' = cont /\ ret' = ret
       /\ UNCHANGED <<memvars, other, arg, end, op, pred, start, idx, bwd>>

\* find_step!() of position: elt = &*self.ptr.post_increment();
\* if p(&elt) { return Some(ptrdistance(start, elt)) }.
position_find_step(cont) ==
    LET pi == post_increment(ptr)
        elt == pi.current
    IN /\ ptr' = pi.self
       /\ fwd' = Append(fwd, elt)
       /\ calls' = Append(calls, elt)
       /\ ub' = (ub \/ ~Valid(elt))
       /\ derefs' = Append(derefs, elt)
       /\ \E x \in Deref(elt) :
            IF x \in pred
            THEN pc' = "idle" /\ ret' = Some(ptrdistance(start, elt))
            ELSE pc' = cont /\ ret' = ret
       /\ UNCHANGED <<memvars, other, arg, end, op, pred, start, idx, bwd>>

\* Faulty variant of the unrolled loop of position: the third slot advances
\* without testing the element.
SliceIter_position_unrolled_skip ==
    /\ status = "ok" /\ op = "position" /\ variant = "SliceIter"
    /\ \/ /\ pc = "while4"
          /\ ptrdistance(ptr, end) >= 4
          /\ position_find_step("step2")
       \/ /\ pc = "step2"
          /\ position_find_step("step3")
       \/ /\ pc = "step3"
          /\ ptr' = post_increment(ptr).self
          /\ fwd' = Append(fwd, ptr)
          /\ pc' = "step4"
          /\ UNCHANGED <<memvars, other, arg, end, op, ret, searchvars, bwd, ub,
                         derefs>>
       \/ /\ pc = "step4"
          /\ position_find_step("while4")
       \/ /\ pc = "while4"
          /\ ~(ptrdistance(ptr, end) >= 4)
          /\ pc' = "while1"
          /\ UNCHANGED <<memvars, other, arg, ptr, end, op, ret, searchvars, fwd, bwd, ub, derefs>>

SliceIter_position_unrolled ==
    /\ status = "ok" /\ op = "position" /\ variant = "SliceIter"
    /\ \/ /\ pc = "while4"
          /\ ptrdistance(ptr, end) >= 4
          /\ position_find_step("step2")
       \/ /\ pc = "step2"
          /\ position_find_step("step3")
       \/ /\ pc = "step3"
          /\ position_find_step("step4")
       \/ /\ pc = "step4"
          /\ position_find_step("while4")
       \/ /\ pc = "while4"
          /\ ~(ptrdistance(ptr, end) >= 4)
          /\ pc' = "while1"
          /\ UNCHANGED <<memvars, other, arg, ptr, end, op, ret, searchvars, fwd, bwd, ub, derefs>>

SliceIter_position_tail ==
    /\ status = "ok" /\ op = "position" /\ variant = "SliceIter"
    /\ pc = "while1"
    /\ \/ /\ ptr # end
          /\ position_find_step("while1")
       \/ /\ ptr = end
          /\ pc' = "idle"
          /\ ret' = None
          /\ UNCHANGED <<memvars, other, arg, ptr, end, op, searchvars, fwd, bwd, ub, derefs>>

----------------------------------------------------------------------------
\* Iterator::position as provided by the trait for SliceCopyIter, which does
\* not override it: for (i, x) in self.enumerate() { if p(x) return Some(i) }

SliceCopyIter_position_call ==
    /\ Callable("SliceCopyIter")
    /\ \E p \in Preds : pred' = p
    /\ op' = "position"
    /\ pc' = "enumerate"
    /\ start' = ptr
    /\ idx' = 0
    /\ calls' = <<>>
    /\ ret' = None
    /\ derefs' = <<>>
    /\ arg' = 0
    /\ UNCHANGED <<memvars, other, ptr, end, fwd, bwd, ub>>

\* One turn of the loop: x = self.next(); None ends it, else test p(x).
SliceCopyIter_position_loop ==
    /\ status = "ok" /\ op = "position" /\ variant = "SliceCopyIter"
    /\ pc = "enumerate"
    /\ \E o \in SliceCopyIter_next_fn(ptr, end) :
        /\ ptr' = o.ptr
        /\ fwd' = fwd \o o.elt
        /\ calls' = calls \o o.elt
        /\ ub' = (ub \/ o.ub)
        /\ derefs' = derefs \o o.derefs
        /\ IF o.elt = None
           THEN pc' = "idle" /\ ret' = None /\ idx' = idx
           ELSE IF o.elt[1] \in pred
                THEN pc' = "idle" /\ ret' = Some(idx) /\ idx' = idx
                ELSE pc' = "enumerate" /\ ret' = ret /\ idx' = idx + 1
    /\ UNCHANGED <<memvars, other, arg, end, op, pred, start, bwd>>

\* Iterator::find as provided by the trait for SliceCopyIter:
\* for x in self { if p(&x) { return Some(x) } }  None

SliceCopyIter_find_call ==
    /\ Callable("SliceCopyIter")
    /\ \E p \in Preds : pred' = p
    /\ op' = "find"
    /\ pc' = "for"
    /\ start' = ptr
    /\ idx' = 0
    /\ calls' = <<>>
    /\ ret' = None
    /\ derefs' = <<>>
    /\ arg' = 0
    /\ UNCHANGED <<memvars, other, ptr, end, fwd, bwd, ub>>

SliceCopyIter_find_loop ==
    /\ status = "ok" /\ op = "find" /\ variant = "SliceCopyIter"
    /\ pc = "for"
    /\ \E o \in SliceCopyIter_next_fn(ptr, end) :
        /\ ptr' = o.ptr
        /\ fwd' = fwd \o o.elt
        /\ calls' = calls \o o.elt
        /\ ub' = (ub \/ o.ub)
        /\ derefs' = derefs \o o.derefs
        /\ IF o.elt = None
           THEN pc' = "idle" /\ ret' = None
           ELSE IF o.elt[1] \in pred
                THEN pc' = "idle" /\ ret' = o.elt
                ELSE pc' = "for" /\ ret' = ret
    /\ UNCHANGED <<memvars, other, arg, end, op, pred, start, idx, bwd>>

----------------------------------------------------------------------------
\* Index<usize> and peek_next

\* Faulty variant of SliceIter's index: the offset is taken in bytes.
SliceIter_index_fn_bytes(p, e, i) ==
    IF i < SliceIter_size_hint(p, e)[1]
    THEN LET a == (p + i) % AddrSpace
         IN [status |-> "ok", elt |-> Some(a), ub |-> ~Valid(a),
             derefs |-> <<a>>]
    ELSE [status |-> "panicked", elt |-> None, ub |-> FALSE, derefs |-> <<>>]

\* SliceIter's index: assert!(i < self.len()); &*self.ptr.offset(i).
SliceIter_index_fn(p, e, i) ==
    IF i < SliceIter_size_hint(p, e)[1]
    THEN LET a == offset(p, i)
         IN [status |-> "ok", elt |-> Some(a), ub |-> ~Valid(a),
             derefs |-> <<a>>]
    ELSE [status |-> "panicked", elt |-> None, ub |-> FALSE, derefs |-> <<>>]

\* Faulty variant of SliceCopyIter's index: the bound test is i <= len.
SliceCopyIter_index_fn_le(p, e, i) ==
    IF i <= SliceCopyIter_size_hint(p, e)[1]
    THEN LET a == offset(p, i)
         IN [status |-> "ok", elt |-> Some(a), ub |-> ~Valid(a),
             derefs |-> <<a>>]
    ELSE [status |-> "panicked", elt |-> None, ub |-> FALSE, derefs |-> <<>>]

\* SliceCopyIter's index: the same body.
SliceCopyIter_index_fn(p, e, i) ==
    IF i < SliceCopyIter_size_hint(p, e)[1]
    THEN LET a == offset(p, i)
         IN [status |-> "ok", elt |-> Some(a), ub |-> ~Valid(a),
             derefs |-> <<a>>]
    ELSE [status |-> "panicked", elt |-> None, ub |-> FALSE, derefs |-> <<>>]

\* iter[i]: a failed assertion panics, which ends the run.
index(o, i) ==
    /\ arg' = i
    /\ status' = o.status
    /\ ret' = o.elt
    /\ ub' = (ub \/ o.ub)
    /\ derefs' = o.derefs
    /\ op' = "index"
    /\ pred' = {} /\ start' = 0 /\ idx' = 0 /\ calls' = <<>>
    /\ UNCHANGED <<variant, ctor, sizeT, slice, base, ptr, end, pc, fwd, bwd,
                   other>>

SliceIter_index ==
    /\ Callable("SliceIter")
    /\ \E i \in 0..(MaxLen + 1) : index(SliceIter_index_fn(ptr, end, i), i)

SliceCopyIter_index ==
    /\ Callable("SliceCopyIter")
    /\ \E i \in 0..(MaxLen + 1) : index(SliceCopyIter_index_fn(ptr, end, i), i)

\* Faulty variant of peek_next: looks at the element after the next one.
SliceIter_peek_next_fn_second(p, e) ==
    IF p # e
    THEN LET a == offset(p, 1)
         IN [elt |-> Some(a), ub |-> ~Valid(a), derefs |-> <<a>>]
    ELSE [elt |-> None, ub |-> FALSE, derefs |-> <<>>]

\* SliceIter::peek_next: Some(&*self.ptr) if ptr != end, else None.
SliceIter_peek_next_fn(p, e) ==
    IF p # e
    THEN [elt |-> Some(p), ub |-> ~Valid(p), derefs |-> <<p>>]
    ELSE [elt |-> None, ub |-> FALSE, derefs |-> <<>>]

SliceIter_peek_next ==
    /\ Callable("SliceIter")
    /\ LET o == SliceIter_peek_next_fn(ptr, end)
       IN /\ ret' = o.elt
          /\ ub' = (ub \/ o.ub)
          /\ derefs' = o.derefs
    /\ op' = "peek_next"
    /\ pred' = {} /\ start' = 0 /\ idx' = 0 /\ calls' = <<>> /\ arg' = 0
    /\ UNCHANGED <<memvars, other, ptr, end, pc, fwd, bwd>>

----------------------------------------------------------------------------
\* count and last.  Both take self by value: they work on the moved value
\* and the caller's iterator (a Copy type) keeps its fields.

\* SliceCopyIter::count / SliceIter::count: self.len().
SliceCopyIter_count_fn(p, e) == SliceCopyIter_size_hint(p, e)[1]
SliceIter_count_fn(p, e) == SliceIter_size_hint(p, e)[1]

\* SliceCopyIter::last: self.next_back().
SliceCopyIter_last_fn(p, e) == SliceCopyIter_next_back_fn(p, e)

\* Faulty variant of SliceIter::last: self.next().
SliceIter_last_fn_first(p, e) == SliceIter_next_fn(p, e)

\* SliceIter::last: self.next_back().
SliceIter_last_fn(p, e) == SliceIter_next_back_fn(p, e)

count ==
    /\ status = "ok" /\ pc = "idle"
    /\ ret' = Some(IF variant = "SliceIter" THEN SliceIter_count_fn(ptr, end)
                   ELSE SliceCopyIter_count_fn(ptr, end))
    /\ op' = "count"
    /\ derefs' = <<>>
    /\ pred' = {} /\ start' = 0 /\ idx' = 0 /\ calls' = <<>> /\ arg' = 0
    /\ UNCHANGED <<memvars, other, ptr, end, pc, fwd, bwd, ub>>

last ==
    /\ status = "ok" /\ pc = "idle"
    /\ \E o \in IF variant = "SliceIter" THEN {SliceIter_last_fn(ptr, end)}
                ELSE SliceCopyIter_last_fn(ptr, end) :
        /\ ret' = o.elt
        /\ ub' = (ub \/ o.ub)
        /\ derefs' = o.derefs
    /\ op' = "last"
    /\ pred' = {} /\ start' = 0 /\ idx' = 0 /\ calls' = <<>> /\ arg' = 0
    /\ UNCHANGED <<memvars, other, ptr, end, pc, fwd, bwd>>

Next ==
    \/ SliceCopyIter_next
    \/ SliceCopyIter_next_back
    \/ SliceCopyIter_position_call
    \/ SliceCopyIter_position_loop
    \/ SliceCopyIter_find_call
    \/ SliceCopyIter_find_loop
    \/ SliceIter_next
    \/ SliceIter_next_back
    \/ SliceIter_find_call
    \/ SliceIter_find_unrolled
    \/ SliceIter_find_tail
    \/ SliceIter_position_call
    \/ SliceIter_position_unrolled
    \/ SliceIter_position_tail
    \/ SliceIter_index
    \/ SliceCopyIter_index
    \/ SliceIter_peek_next
    \/ count
    \/ last

Spec == Init /\ [][Next]_vars

----------------------------------------------------------------------------
\* Clone / Copy: two values over the same borrowed memory

\* Faulty variant of clone: the copy starts empty at the front.
clone_fn_empty(p, e) == [ptr |-> p, end |-> p]

\* Clone::clone: *self, a copy of the two fields.
clone_fn(p, e) == [ptr |-> p, end |-> e]

\* let c = it.clone(): the copy carries the history of the original.
clone ==
    /\ status = "ok" /\ pc = "idle"
    /\ other = <<>>
    /\ LET c == clone_fn(ptr, end)
       IN other' = <<[ptr |-> c.ptr, end |-> c.end, fwd |-> fwd, bwd |-> bwd]>>
    /\ op' = "clone"
    /\ ret' = None
    /\ derefs' = <<>>
    /\ pred' = {} /\ start' = 0 /\ idx' = 0 /\ calls' = <<>> /\ arg' = 0
    /\ UNCHANGED <<memvars, ptr, end, pc, fwd, bwd, ub>>

\* The caller turns to the other of the two values: the following calls
\* have it as their receiver.
turn ==
    /\ status = "ok" /\ pc = "idle"
    /\ other # <<>>
    /\ ptr' = other[1].ptr
    /\ end' = other[1].end
    /\ fwd' = other[1].fwd
    /\ bwd' = other[1].bwd
    /\ other' = <<[ptr |-> ptr, end |-> end, fwd |-> fwd, bwd |-> bwd]>>
    /\ op' = "turn"
    /\ ret' = None
    /\ derefs' = <<>>
    /\ pred' = {} /\ start' = 0 /\ idx' = 0 /\ calls' = <<>> /\ arg' = 0
    /\ UNCHANGED <<memvars, pc, ub>>

\* Runs in which a slice-built iterator is cloned and both values are used.
InitClone ==
    /\ Init
    /\ ctor = "from"
    /\ status = "ok"
    /\ Len(slice) <= CloneMaxLen
    /\ \A b \in BaseAddrs : base <= b

NextClone ==
    \/ Next
    \/ clone
    \/ turn

SpecClone == InitClone /\ [][NextClone]_vars

----------------------------------------------------------------------------
\* Vocabulary of the properties

n == Len(slice)
\* Elements fetched from the front (by next, or by a search's
\* fetch-then-advance step) and from the back (by next_back).
k == Len(fwd)
m == Len(bwd)

\* Address of the element with original index i (0-based).
ElemAddr(i) == base + i * sizeT
\* Value stored at a valid element address.
ValAt(a) == slice[((a - base) \div sizeT) + 1]
\* What the iterator yields for original index i: a copy of the element
\* (SliceCopyIter) or a reference to it (SliceIter).
Item(i) == IF variant = "SliceCopyIter" THEN slice[i + 1] ELSE ElemAddr(i)

\* Addresses of the elements in the half-open range [a, e).
RangeAddrs(a, e) == {x \in a..(e - 1) : (x - a) % sizeT = 0}
\* Values of the elements in [ptr, end), front to back.
Remaining == [i \in 1..((end - ptr) \div sizeT) |-> ValAt(ptr + (i - 1) * sizeT)]

\* Offsets (from a) of the elements of [a, e) that satisfy the predicate.
Matches(a, e) ==
    {j \in 0..(((e - a) \div sizeT) - 1) : ValAt(a + j * sizeT) \in pred}
FirstMatch(a, e) == CHOOSE j \in Matches(a, e) : \A i \in Matches(a, e) : j <= i

Ok == status = "ok"
Returned(v, o) == Ok /\ variant = v /\ op = o /\ pc = "idle"

\* C1: for an iterator over n elements, len() is n - k - m after k fetches
\* from the front and m from the back in any order (n before any step), and
\* size_hint reports exactly that value as lower and as upper bound.
C1_LengthConsistency ==
    Ok => /\ k + m <= n
          /\ len = n - k - m
          /\ size_hint = <<n - k - m, Some(n - k - m)>>
          /\ (op = "new" => len = n)

C1_Witness ==
    /\ Ok /\ ctor = "from" /\ sizeT = 4 /\ n = 7
    /\ op \in {"next", "next_back"}
    /\ k = 2 /\ m = 3 /\ len = 2

\* C2: once start == end, no step changes start or end again, and every
\* next / next_back called from then on returns None.
C2_ExhaustionTerminal ==
    [][(Ok /\ ptr = end) =>
         /\ ptr' = ptr
         /\ end' = end
         /\ (pc = "idle" /\ pc' = "idle" /\ op' \in {"next", "next_back"}
               => ret' = None)]_vars

C2_Witness ==
    /\ Ok /\ ctor = "from" /\ n >= 3
    /\ k >= 1 /\ m >= 1 /\ k + m = n
    /\ ptr = end
    /\ op = "next_back" /\ pc = "idle" /\ ret = None

\* C3: n forward steps on an n-element slice yield its elements in index
\* order 0..n-1; n backward steps on a fresh iterator yield n-1..0.
C3_FrontBackAgreement ==
    Ok => /\ (m = 0 /\ k = n) => fwd = [i \in 1..n |-> Item(i - 1)]
          /\ (k = 0 /\ m = n) => bwd = [i \in 1..n |-> Item(n - i)]

C3_Witness ==
    /\ Ok /\ variant = "SliceCopyIter" /\ ctor = "from"
    /\ n >= 6 /\ k = 0 /\ m = n
    /\ op = "next_back" /\ ret = Some(slice[1])

\* C4: for every split j, j forward and n-j backward steps (in any order)
\* produce every element exactly once: the forward steps yield 0..j-1 in
\* order, the backward steps yield n-1 down to j.
C4_MixedDirection ==
    (Ok /\ k + m = n) =>
        /\ \A i \in 1..k : fwd[i] = Item(i - 1)
        /\ \A i \in 1..m : bwd[i] = Item(n - i)
        /\ variant = "SliceIter" =>
             /\ {fwd[i] : i \in 1..k} \cap {bwd[i] : i \in 1..m} = {}
             /\ {fwd[i] : i \in 1..k} \cup {bwd[i] : i \in 1..m}
                  = {ElemAddr(i) : i \in 0..(n - 1)}
             /\ Cardinality({fwd[i] : i \in 1..k}) = k
             /\ Cardinality({bwd[i] : i \in 1..m}) = m

C4_Witness ==
    /\ Ok /\ variant = "SliceIter" /\ ctor = "from"
    /\ n >= 6 /\ k >= 2 /\ m >= 2 /\ k + m = n
    /\ op = "next" /\ pc = "idle" /\ ret # None

\* C5: after k fetches from the front and m from the back of an n-element
\* slice, start = base + k*size_of(T), end = base + (n-m)*size_of(T), the
\* range [start, end) holds exactly the elements k .. n-m-1, and no element
\* already produced lies inside it.
C5_RangeIsUnproduced ==
    (Ok /\ ctor = "from") =>
        /\ ptr = base + k * sizeT
        /\ end = base + (n - m) * sizeT
        /\ RangeAddrs(ptr, end) = {ElemAddr(i) : i \in k..(n - m - 1)}
        /\ variant = "SliceIter" =>
             /\ \A i \in 1..k : fwd[i] \notin RangeAddrs(ptr, end)
             /\ \A i \in 1..m : bwd[i] \notin RangeAddrs(ptr, end)

C5_Witness ==
    /\ Ok /\ ctor = "from" /\ variant = "SliceIter" /\ sizeT = 4
    /\ k = 2 /\ m = 2 /\ n = 7
    /\ RangeAddrs(ptr, end) = {ElemAddr(2), ElemAddr(3), ElemAddr(4)}

\* C6: start <= end in every reachable state, the states between the
\* fetch-then-advance steps of an unrolled block included, so end - start
\* never underflows.
C6_StartLeEnd ==
    Ok => /\ ptr <= end
          /\ USub(end, ptr) = end - ptr

C6_Witness ==
    /\ Ok /\ op \in {"find", "position"} /\ variant = "SliceIter"
    /\ pc = "step4"
    /\ Len(calls) = 7
    /\ ptrdistance(ptr, end) = 1

\* The state after the end-to-end example: a by-value iterator over
\* [10, 20, 30, 40, 50], one forward step, one backward step, then
\* position(x == 30) has returned.
C7_Scenario ==
    /\ Returned("SliceCopyIter", "position")
    /\ ctor = "from"
    /\ slice = <<10, 20, 30, 40, 50>>
    /\ pred = {30}
    /\ start = ElemAddr(1)
    /\ m = 1

\* C7 as stated: ... position(x == 30) returns 0 and leaves [40].
C7_AsStated ==
    C7_Scenario =>
        /\ fwd[1] = 10
        /\ bwd = <<50>>
        /\ ret = Some(0)
        /\ Remaining = <<40>>

\* C7 (amended): the first forward step returns 10, the backward step 50,
\* and position(x == 30) returns 1, the offset of 30 in the remaining
\* range [20, 30, 40], leaving exactly [40].
C7_EndToEnd ==
    C7_Scenario =>
        /\ fwd[1] = 10
        /\ bwd = <<50>>
        /\ ret = Some(1)
        /\ Remaining = <<40>>

C7_Witness ==
    /\ C7_Scenario
    /\ calls = <<20, 30>>
    /\ ret # None

\* C8: SliceIter::position, when the first element satisfying the predicate
\* is at offset j from the start at the moment of the call (range length L),
\* returns Some(j), advances start by j+1 elements, leaves end unchanged and
\* L - j - 1 elements remaining.
C8_PositionOffset ==
    (Returned("SliceIter", "position") /\ ctor = "from"
        /\ Matches(start, end) # {}) =>
        LET j == FirstMatch(start, end)
            L == (end - start) \div sizeT
        IN /\ ret = Some(j)
           /\ ptr = start + (j + 1) * sizeT
           /\ end = ElemAddr(n - m)
           /\ len = L - j - 1

C8_Witness ==
    /\ Returned("SliceIter", "position") /\ ctor = "from"
    /\ start > base
    /\ (end - start) \div sizeT = 7
    /\ ret = Some(2)
    /\ len = 4

\* C9: when no remaining element satisfies the predicate, find and position
\* return None and leave the iterator exhausted (start == end, length 0)
\* with end unchanged, for every range length.
C9_NotFoundExhausts ==
    (Ok /\ variant = "SliceIter" /\ op \in {"find", "position"}
        /\ pc = "idle" /\ ctor = "from" /\ Matches(start, end) = {}) =>
        /\ ret = None
        /\ ptr = end
        /\ len = 0
        /\ end = ElemAddr(n - m)

C9_Witness ==
    /\ Returned("SliceIter", "find") /\ ctor = "from"
    /\ (end - start) \div sizeT = 7
    /\ pred # {}
    /\ ret = None
    /\ ptr = end

\* C10: SliceIter::find calls the predicate on the remaining elements left
\* to right, once each, none skipped; it stops at the first element that
\* satisfies it, returns it, and leaves start just past it, the elements
\* after it still in the range.
C10_FindLeftToRight ==
    (Ok /\ variant = "SliceIter" /\ op = "find" /\ ctor = "from") =>
        LET c == Len(calls)
            L == (end - start) \div sizeT
        IN /\ c <= L
           /\ calls = [i \in 1..c |-> start + (i - 1) * sizeT]
           /\ ptr = start + c * sizeT
           /\ \A i \in 1..(c - 1) : ValAt(calls[i]) \notin pred
           /\ pc # "idle" => (c > 0 => ValAt(calls[c]) \notin pred)
           /\ (pc = "idle" /\ ret # None) =>
                /\ c > 0
                /\ ret = Some(calls[c])
                /\ ValAt(calls[c]) \in pred
                /\ ptr = calls[c] + sizeT
                /\ len = L - c
                /\ RangeAddrs(ptr, end)
                     = {start + i * sizeT : i \in c..(L - 1)}
           /\ (pc = "idle" /\ ret = None) => c = L

C10_Witness ==
    /\ Returned("SliceIter", "find") /\ ctor = "from"
    /\ Len(calls) = 6
    /\ ret = Some(calls[6])
    /\ len = 2

\* The step function of next for the variant in use (one outcome).
NextOf(p, e) ==
    IF variant = "SliceIter" THEN SliceIter_next_fn(p, e)
    ELSE CHOOSE o \in SliceCopyIter_next_fn(p, e) : TRUE

\* The items a full forward traversal of [p, e) produces: next repeated
\* until it returns None (at most fuel times).
RECURSIVE Forward(_, _, _)
Forward(p, e, fuel) ==
    LET o == NextOf(p, e)
    IN IF fuel = 0 \/ o.elt = None THEN <<>>
       ELSE o.elt \o Forward(o.ptr, e, fuel - 1)

\* Value of an item: the copy itself, or what the reference points to.
ItemVal(x) == IF variant = "SliceCopyIter" THEN x ELSE ValAt(x)

\* C11: for 0 <= i < len(), iter[i] is the element the (i+1)-th forward
\* step from the current state would produce, the element at original
\* position k+i, and indexing leaves start and end unchanged.
C11_IndexAgreement ==
    /\ [](Returned("SliceIter", "index") \/ Returned("SliceCopyIter", "index")
            => /\ arg < len
               /\ ret = Some(ElemAddr(k + arg))
               /\ ValAt(ret[1])
                    = ItemVal(Forward(ptr, end, MaxLen + 1)[arg + 1])
               /\ variant = "SliceIter"
                    => ret[1] = Forward(ptr, end, MaxLen + 1)[arg + 1])
    /\ [][(Ok /\ op' = "index") => (ptr' = ptr /\ end' = end)]_vars

C11_Witness ==
    /\ Returned("SliceCopyIter", "index")
    /\ sizeT = 4 /\ k = 2 /\ m = 1 /\ n = 8
    /\ arg = 4
    /\ ret = Some(ElemAddr(6))

\* C12: iter[i] with i >= len() (the current length) panics before any
\* memory is read and leaves start and end unchanged.
C12_IndexOutOfRange ==
    /\ [](op = "index" =>
            /\ status = "panicked" <=> arg >= len
            /\ status = "panicked" => (derefs = <<>> /\ ret = None))
    /\ [][(Ok /\ op' = "index" /\ arg' >= len) =>
            /\ status' = "panicked"
            /\ derefs' = <<>>
            /\ ub' = ub
            /\ ptr' = ptr
            /\ end' = end]_vars

C12_Witness ==
    /\ op = "index" /\ status = "panicked" /\ sizeT > 0
    /\ n = 6 /\ k = 0 /\ m = 2
    /\ arg = 4 /\ len = 4

\* C13: peek_next returns what the next forward step would return (None
\* exactly when exhausted), never changes start or end, and repeated
\* peek_next calls and a following next return that same element.
C13_PeekNext ==
    /\ [](Returned("SliceIter", "peek_next") =>
            /\ ret = SliceIter_next_fn(ptr, end).elt
            /\ ret = None <=> ptr = end)
    /\ [][(Ok /\ op' = "peek_next") => (ptr' = ptr /\ end' = end)]_vars
    /\ [][(Returned("SliceIter", "peek_next") /\ pc' = "idle"
             /\ op' \in {"peek_next", "next"}) => ret' = ret]_vars

C13_Witness ==
    /\ Returned("SliceIter", "peek_next")
    /\ k = 2 /\ m = 1 /\ n = 6
    /\ ret = Some(ElemAddr(2))

\* C14 as stated: the sentinel address of a default-constructed iterator is
\* non-null and a multiple of T's alignment, for every element type.
C14_AsStated ==
    (Ok /\ ctor = "default" /\ op = "new") =>
        /\ ptr # 0 /\ end # 0
        /\ ptr % align_of = 0
        /\ end % align_of = 0

\* C15: a default-constructed iterator has length 0, and next, next_back,
\* peek_next, find and position all return None without dereferencing any
\* address and without changing start or end.
C15_DefaultEmptiness ==
    /\ []((Ok /\ ctor = "default") =>
            /\ len = 0
            /\ ptr = end
            /\ fwd = <<>> /\ bwd = <<>> /\ calls = <<>>
            /\ derefs = <<>> /\ ~ub
            /\ (pc = "idle" /\ op \in {"next", "next_back", "peek_next",
                                       "find", "position"}) => ret = None)
    /\ [][(Ok /\ ctor = "default") => (ptr' = ptr /\ end' = end)]_vars

C15_Witness ==
    /\ Returned("SliceIter", "find") /\ ctor = "default"
    /\ sizeT = 4
    /\ pred = Values
    /\ ret = None /\ ptr = end

\* C18: new, from and default all fail the assertion when size_of(T) is 0,
\* so no iterator over a zero-sized element type is ever reachable.
C18_NoZeroSized ==
    /\ sizeT = 0 => (status = "panicked" /\ op = "new")
    /\ Ok => sizeT # 0

C18_Witness ==
    /\ sizeT = 0 /\ ctor = "new" /\ status = "panicked"

\* C17: count() is the number of elements repeated forward stepping from
\* the current state would produce, and last() is the element such a
\* traversal would produce last (the one just before end), None when the
\* iterator is exhausted.
C17_CountLast ==
    LET f == Forward(ptr, end, MaxLen + 1)
    IN /\ (Ok /\ op = "count") =>
            /\ ret = Some(Len(f))
            /\ ret = Some(len)
       /\ (Ok /\ op = "last") =>
            /\ ret = (IF f = <<>> THEN None ELSE Some(f[Len(f)]))
            /\ ret = None <=> ptr = end
            /\ ret # None => ret = Some(Item(n - m - 1))

C17_Witness ==
    /\ Ok /\ op = "last" /\ variant = "SliceCopyIter"
    /\ n = 7 /\ k = 1 /\ m = 1
    /\ ret = Some(slice[6])

\* The plain search over [p, e): repeat next, call the predicate on the
\* item, stop at the first one that satisfies it.  i counts the items
\* tested, acc logs them.
RECURSIVE PlainSearch(_, _, _, _, _)
PlainSearch(p, e, i, acc, fuel) ==
    LET o == SliceIter_next_fn(p, e)
    IN IF fuel = 0 \/ o.elt = None
       THEN [elt |-> None, idx |-> None, ptr |-> p, calls |-> acc]
       ELSE IF ValAt(o.elt[1]) \in pred
            THEN [elt |-> o.elt, idx |-> Some(i), ptr |-> o.ptr,
                  calls |-> Append(acc, o.elt[1])]
            ELSE PlainSearch(o.ptr, e, i + 1, Append(acc, o.elt[1]),
                             fuel - 1)

\* C19: the unrolled find and position of SliceIter return the same result
\* as the plain one-element-at-a-time search from the same range, call the
\* predicate on the same elements in the same order, and leave the same
\* (start, end).
C19_UnrolledEqualsPlain ==
    (Ok /\ variant = "SliceIter" /\ op \in {"find", "position"}
        /\ pc = "idle") =>
        LET r == PlainSearch(start, end, 0, <<>>, MaxLen + 1)
        IN /\ ret = (IF op = "find" THEN r.elt ELSE r.idx)
           /\ calls = r.calls
           /\ ptr = r.ptr
           /\ ctor # "default" => end = ElemAddr(n - m)

C19_Witness ==
    /\ Returned("SliceIter", "position")
    /\ Len(calls) = 9
    /\ ret = Some(8)
    /\ ptr = end

\* A step of a running search (find or position, either variant).
SearchStep == pc # "idle"

\* C20: start never decreases and end never increases; a forward or
\* backward step on a range of length > 1 leaves the iterator Active and
\* one on a range of length 1 makes it Exhausted; n fetches in any mix of
\* directions exhaust an n-element range; find and position evaluate the
\* predicate at most len() times and every step of theirs either evaluates
\* it once more, leaves the unrolled loop for good, or returns.
C20_MonotonicNarrowing ==
    /\ [][Ok => (ptr' >= ptr /\ end' <= end)]_vars
    /\ [][(Ok /\ pc = "idle" /\ pc' = "idle"
             /\ op' \in {"next", "next_back"} /\ ret' # None) =>
            /\ len > 1 => ptr' # end'
            /\ len = 1 => ptr' = end']_vars
    /\ []((Ok /\ k + m = n) => ptr = end)
    /\ []((Ok /\ op \in {"find", "position"}) =>
            Len(calls) <= ptrdistance(start, end))
    /\ []((Ok /\ SearchStep) => ENABLED Next)
    /\ [][(Ok /\ SearchStep) =>
            \/ Len(calls') = Len(calls) + 1
            \/ pc = "while4" /\ pc' = "while1"
            \/ pc' = "idle"]_vars

C20_Witness ==
    /\ Ok /\ op = "next_back" /\ pc = "idle" /\ ret # None
    /\ n = 7 /\ k = 4 /\ m = 3
    /\ ptr = end

\* The items a value with fields (p, e) and history (f, b) has still to
\* produce: the elements of the slice not in its history, front to back.
Unproduced(f, b) == [i \in 1..(n - Len(f) - Len(b)) |-> Item(Len(f) + i - 1)]

\* C16: a copy is an independent (start, end) pair over the same memory:
\* it starts with the fields of the original, calls on one value leave the
\* other's start, end and length unchanged, and each value goes on to
\* produce exactly the elements the original had left at the copy, less
\* those it has itself produced since.
C16_CopyIndependence ==
    /\ []((Ok /\ op = "clone") =>
            (other # <<>> /\ other[1].ptr = ptr /\ other[1].end = end))
    /\ [][(Ok /\ other # <<>> /\ op' # "turn") => other' = other]_vars
    /\ []((Ok /\ other # <<>>) =>
            LET c == other[1]
            IN /\ c.ptr = base + Len(c.fwd) * sizeT
               /\ c.end = base + (n - Len(c.bwd)) * sizeT
               /\ Forward(c.ptr, c.end, MaxLen + 1) = Unproduced(c.fwd, c.bwd)
               /\ Forward(ptr, end, MaxLen + 1) = Unproduced(fwd, bwd))

C16_Witness ==
    /\ Ok /\ other # <<>> /\ pc = "idle"
    /\ n = 4 /\ k = 3 /\ m = 0
    /\ Len(other[1].fwd) = 1 /\ Len(other[1].bwd) = 2
    /\ op = "find" /\ ret # None

====
